---- MODULE Spec2Model ----
(***************************************************************************)
(* Runtime policy layer of codecontext-ai's execution engine:              *)
(* MainSecurityManager (coordinator), ModuleSecurityManager (static scan   *)
(* and capability gate), EnvironmentBlocker (environment gate),            *)
(* TimeoutManager (timeout supervisor), MemoryMonitor (memory supervisor)  *)
(* and the worker started by SecureExecutionEngine (execution unit).       *)
(*                                                                         *)
(* Time is the millisecond clock of the event loop, advanced in steps of   *)
(* the memory monitor's check interval.  Timers fire in the order of their *)
(* expiry, ties in the order they were armed.  An asynchronous function is *)
(* one action per stretch of code between two awaits.                      *)
(***************************************************************************)
EXTENDS Integers, Sequences, FiniteSets, TLC

\* ------------------------------------------------------------------ bounds
MaxCalls == 2
MaxTicks == 2
MaxMemMoves == 1
MaxListed == 2
MaxEnvListed == 1
MaxPieces == 2
MaxLayers == 2
MaxGateOps == 2

\* --------------------------------------------------------- program constants
MiB == 1024 * 1024
DefaultMaxExecutionTime == 30000
MaxCpuTime == 20000
TimeoutCheckInterval == 1000
MemCheckInterval == 500
MaxHeapSize == 128 * MiB
MaxRssSize == 256 * MiB
MaxArrayBufferSize == 64 * MiB
HistoryLimit == 100
GrowthWindowSamples == 10
GrowthWindowMs == 5000
GrowthLimit == 50 * MiB
CodeSizeLimit == 50000
EngineDefaultTimeout == 30000
EngineDefaultMemoryLimit == 128 * MiB
WorkerOldGenerationLimit == 128 * MiB
KiB == 1024
GiB == 1024 * MiB

\* ----------------------------------------------------------- source text
\* A source text is a sequence of lexical pieces; each piece has a length in
\* characters and is matched, as a whole, by at most one dangerous pattern.
Pieces == {"reqfs", "reqcp", "log", "tail", "undef", "loop"}

PieceLen(t) ==
  CASE t = "reqfs" -> 13      \* require("fs")
    [] t = "reqcp" -> 24      \* require("child_process")
    [] t = "log"   -> 16      \* console.log(2+2)
    [] t = "tail"  -> 28      \* .readFileSync("/etc/passwd")
    [] t = "undef" -> 31      \* console.log(undefinedVariable);
    [] t = "loop"  -> 14      \* while(true){}

DANGEROUS_PATTERNS ==
  << "child_process", "fs", "net", "http", "os", "process_exit", "eval",
     "Function", "setTimeout_eval", "setInterval_eval", "global", "globalThis" >>

PieceMatches(t, p) ==
  \/ t = "reqfs" /\ p = "fs"
  \/ t = "reqcp" /\ p = "child_process"

RECURSIVE CodeLength(_)
CodeLength(code) ==
  IF code = << >> THEN 0 ELSE PieceLen(Head(code)) + CodeLength(Tail(code))

Offset(code, i) == CodeLength(SubSeq(code, 1, i - 1))

\* RegExp.prototype.test of a pattern carrying the g flag: the search starts
\* at lastIndex; a match moves lastIndex to its end, a failure resets it to 0.
MatchAt(code, p, from) ==
  LET hits == { i \in DOMAIN code : PieceMatches(code[i], p) /\ Offset(code, i) >= from }
  IN  IF hits = {} THEN 0 ELSE CHOOSE i \in hits : \A j \in hits : i <= j

RegexTest(code, p, from) ==
  LET m == MatchAt(code, p, from)
  IN  [ matched   |-> m # 0,
        lastIndex |-> IF m = 0 THEN 0 ELSE Offset(code, m) + PieceLen(code[m]) ]

SecurityTestCode == << "reqfs", "tail" >>
CodeBenign == << "log" >>
CodeFs == << "reqfs" >>
CodeTwo == << "log", "reqcp", "reqfs" >>

\* ------------------------------------------------------------ inputs
ExecIds == {"e1", "e2"}
Calls == 1 .. MaxCalls

\* ExecutionRequest as SecureExecutionEngine.executeCode receives it:
\* timeout 0 and memoryLimit "" stand for an absent field.
Requests ==
  { [id |-> "e1", code |-> CodeBenign, language |-> "javascript",
     timeout |-> 1000, memoryLimit |-> "16MB"],
    [id |-> "e1", code |-> CodeFs, language |-> "javascript",
     timeout |-> 0, memoryLimit |-> ""],
    [id |-> "e2", code |-> CodeTwo, language |-> "javascript",
     timeout |-> 1000, memoryLimit |-> ""],
    [id |-> "e2", code |-> CodeBenign, language |-> "javascript",
     timeout |-> 0, memoryLimit |-> ""] }

\* process.memoryUsage() readings the process can show.
MemNormal == [heapUsed |-> 32 * MiB,  rss |-> 96 * MiB,  arrayBuffers |-> MiB]
MemHeapHi == [heapUsed |-> 200 * MiB, rss |-> 240 * MiB, arrayBuffers |-> MiB]
MemBufHi  == [heapUsed |-> 32 * MiB,  rss |-> 128 * MiB, arrayBuffers |-> 65 * MiB]
MemLevels == {MemNormal, MemHeapHi, MemBufHi}

\* process.cpuUsage() readings (user + system, in ms, since process start).
CpuLevels == {0, 25000}

\* ------------------------------------------------------------------ state
VARIABLES
  initialized,      \* MainSecurityManager.initialized
  strictMode,       \* MainSecurityManager.config.strictMode
  modViolations,    \* ModuleSecurityManager.violations
  lastIndex,        \* lastIndex of each DANGEROUS_PATTERNS regular expression
  envViolations,    \* EnvironmentBlocker.violations
  envInstalled,     \* process.env has been replaced by the secure proxy
  tm,               \* TimeoutManager: config.maxExecutionTime, activeExecutions, metrics objects
  mm,               \* MemoryMonitor: isMonitoring, memoryHistory, violations, peakMetrics
  timers,           \* armed timers of the event loop, in the order they were armed
  call,             \* one executeSecurely invocation per slot
  result,           \* what each invocation returned or threw
  unit,             \* the worker of each invocation
  now,              \* Date.now()
  mem,              \* process.memoryUsage()
  cpu,              \* process.cpuUsage(), user + system, ms
  memMoves,         \* how often the memory reading has changed so far
  crashed,          \* an exception escaped a timer callback: the process is gone
  gate              \* the gates as installed: layers of global.require, initialize() calls
                    \* suspended at their await, and the outcome of the last call through a gate

vars == << initialized, strictMode, modViolations, lastIndex, envViolations,
           envInstalled, tm, mm, timers, call, result, unit, now, mem, cpu,
           memMoves, crashed, gate >>

Max(a, b) == IF a >= b THEN a ELSE b

PatternIndex == 1 .. Len(DANGEROUS_PATTERNS)
Handles == Calls \X {1, 2}
NoHandle == << 0, 0 >>

\* ---------------------------------------------------- ModuleSecurityManager
\* analyzeCode: the findings of one scan (owner: the invocation scanning, 0
\* for the coordinator's self test), the verdict, and the regular
\* expressions' lastIndex afterwards.
Finding(p, owner) ==
  [type |-> "DANGEROUS_PATTERN", severity |-> "HIGH", detail |-> p, owner |-> owner]

OversizeFinding(owner) ==
  [type |-> "SUSPICIOUS_BEHAVIOR", severity |-> "MEDIUM", detail |-> "size", owner |-> owner]

analyzeCode(code, li, owner) ==
  LET hit(i) == RegexTest(code, DANGEROUS_PATTERNS[i], li[i]).matched
      order  == [i \in PatternIndex |-> i]
      found  == SelectSeq(order, hit)
      pats   == [j \in 1 .. Len(found) |-> Finding(DANGEROUS_PATTERNS[found[j]], owner)]
      all    == IF CodeLength(code) > CodeSizeLimit
                THEN Append(pats, OversizeFinding(owner)) ELSE pats
  IN  [ violations |-> all,
        safe       |-> \A j \in DOMAIN all : all[j].severity \notin {"CRITICAL", "HIGH"},
        lastIndex  |-> [i \in PatternIndex |->
                          RegexTest(code, DANGEROUS_PATTERNS[i], li[i]).lastIndex] ]

\* ------------------------------------------------------- EnvironmentBlocker
EnvViolation(type, severity, variable, owner) ==
  [type |-> type, severity |-> severity, detail |-> variable, owner |-> owner]

\* testBlocking: reads API_KEY (sensitive) and NODE_ENV (allowed), assigns
\* TEST_VAR and enumerates the keys, all through the secure proxy.
testBlocking(log, owner) ==
  log \o << EnvViolation("SENSITIVE_VAR_ACCESS", "CRITICAL", "API_KEY", owner),
            EnvViolation("ENV_ACCESS_BLOCKED", "HIGH", "TEST_VAR", owner),
            EnvViolation("ENV_ENUMERATION", "HIGH", "", owner) >>

\* ------------------------------------------------------------ MemoryMonitor
EmptyMonitor ==
  [isMonitoring |-> FALSE, memoryHistory |-> << >>, violations |-> << >>,
   peakHeapUsed |-> 0, peakRss |-> 0]

MemViolation(type, severity, during) ==
  [type |-> type, severity |-> severity, during |-> during]

\* checkLimits: handleViolation raises on a CRITICAL violation, which ends
\* the check where it stands.
checkLimits(vs, m, during) ==
  IF m.heapUsed > MaxHeapSize
  THEN [violations |-> Append(vs, MemViolation("HEAP_LIMIT_EXCEEDED", "CRITICAL", during)),
        threw |-> TRUE]
  ELSE IF m.rss > MaxRssSize
  THEN [violations |-> Append(vs, MemViolation("RSS_LIMIT_EXCEEDED", "CRITICAL", during)),
        threw |-> TRUE]
  ELSE IF m.arrayBuffers > MaxArrayBufferSize
  THEN [violations |-> Append(vs, MemViolation("ARRAY_BUFFER_LIMIT_EXCEEDED", "HIGH", during)),
        threw |-> FALSE]
  ELSE [violations |-> vs, threw |-> FALSE]

checkMemoryGrowthAnomalies(vs, history, m, t, during) ==
  IF Len(history) < GrowthWindowSamples THEN vs
  ELSE LET oldest == history[Len(history) - GrowthWindowSamples + 1]
       IN  IF t - oldest.timestamp < GrowthWindowMs
              /\ m.heapUsed - oldest.heapUsed > GrowthLimit
           THEN Append(vs, MemViolation("MEMORY_GROWTH_ANOMALY", "HIGH", during))
           ELSE vs

\* (a history that only grows: what C34 must notice)
pushHistoryKeepsAll(history, sample) == Append(history, sample)

\* memoryHistory.push(metrics), then shift() once the length passes 100.
pushHistory(history, sample) ==
  LET pushed == Append(history, sample)
  IN  IF Len(pushed) > HistoryLimit THEN Tail(pushed) ELSE pushed

\* checkMemoryUsage: one sample m taken at time t; during names the
\* invocations in flight, for the record only.
checkMemoryUsage(M, m, t, during) ==
  LET sample  == [heapUsed |-> m.heapUsed, rss |-> m.rss,
                  arrayBuffers |-> m.arrayBuffers, timestamp |-> t, during |-> during]
      history == pushHistory(M.memoryHistory, sample)
      limits  == checkLimits(M.violations, m, during)
      M1      == [M EXCEPT !.peakHeapUsed = Max(@, m.heapUsed),
                           !.peakRss = Max(@, m.rss),
                           !.memoryHistory = history,
                           !.violations = limits.violations]
  IN  IF limits.threw
      THEN [mm |-> M1, threw |-> TRUE]
      ELSE [mm |-> [M1 EXCEPT !.violations =
                      checkMemoryGrowthAnomalies(limits.violations, history, m, t, during)],
            threw |-> FALSE]

MemTimer(t) == [kind |-> "mem", c |-> 0, k |-> 0, id |-> "", due |-> t]

\* isMemoryUsageSafe reads the process's memory usage at the time of the call.
isMemoryUsageSafe(m) ==
  /\ m.heapUsed <= MaxHeapSize
  /\ m.rss <= MaxRssSize
  /\ m.arrayBuffers <= MaxArrayBufferSize

\* startMonitoring: nothing happens while monitoring; otherwise history,
\* violations and peaks are reset, the interval is armed and a first sample
\* is taken at once.
startMonitoring(M, ts, m, t, during) ==
  IF M.isMonitoring
  THEN [mm |-> M, timers |-> ts, threw |-> FALSE]
  ELSE LET R == checkMemoryUsage([EmptyMonitor EXCEPT !.isMonitoring = TRUE], m, t, during)
       IN  [mm |-> R.mm,
            timers |-> Append(ts, MemTimer(t + MemCheckInterval)),
            threw |-> R.threw]

\* stopMonitoring: the sampler is disarmed; the peaks are what it returns.
stopMonitoring(M, ts) ==
  IF ~M.isMonitoring
  THEN [mm |-> M, timers |-> ts, peakHeapUsed |-> 0]
  ELSE [mm |-> [M EXCEPT !.isMonitoring = FALSE],
        timers |-> SelectSeq(ts, LAMBDA x : x.kind # "mem"),
        peakHeapUsed |-> M.peakHeapUsed]

\* ----------------------------------------------------------- TimeoutManager
\* activeExecutions maps an execution id to the entry of the last
\* startExecution under that id; <<c, k>> names the k-th startExecution of
\* invocation c: its two timer handles and its metrics object.
NoExec == [startTime |-> 0, c |-> 0, k |-> 0]
\* terminatedBy keeps the reason terminateExecution was given; reason itself is
\* overwritten when executeWithTimeout catches a rejection.
NoMetrics ==
  [executionTime |-> 0, cpuUsage |-> 0, timedOut |-> FALSE, reason |-> "", terminatedBy |-> ""]

DeadlineTimer(c, k, id, t) == [kind |-> "deadline", c |-> c, k |-> k, id |-> id, due |-> t]
SamplerTimer(c, k, id, t) == [kind |-> "sampler", c |-> c, k |-> k, id |-> id, due |-> t]
\* (a worker timeout that outlasts the request's: what C6 must notice)
UnitTimerLate(c, t) ==
  [kind |-> "unit", c |-> c, k |-> 0, id |-> "", due |-> t + EngineDefaultTimeout]
UnitTimer(c, t) == [kind |-> "unit", c |-> c, k |-> 0, id |-> "", due |-> t]
RaceTimer(c, t) == [kind |-> "race", c |-> c, k |-> 0, id |-> "", due |-> t]

\* clearTimeout and clearInterval on the two handles of an entry.
ClearHandles(ts, c, k) ==
  SelectSeq(ts, LAMBDA x : ~(x.kind \in {"deadline", "sampler"} /\ x.c = c /\ x.k = k))

\* The supervisor's state together with the event loop's timers.
startExecution(S, id, c, k, t) ==
  [ tm |-> [S.tm EXCEPT !.metrics[<< c, k >>] = NoMetrics,
                        !.active[id] = [startTime |-> t, c |-> c, k |-> k]],
    timers |-> S.timers \o << DeadlineTimer(c, k, id, t + S.tm.maxExecutionTime),
                              SamplerTimer(c, k, id, t + TimeoutCheckInterval) >> ]

\* stopExecution: ref is the metrics object returned, NoHandle for null.
stopExecution(S, id, t) ==
  LET e == S.tm.active[id]
  IN  IF e.c = 0
      THEN [tm |-> S.tm, timers |-> S.timers, ref |-> NoHandle]
      ELSE [ tm |-> [S.tm EXCEPT !.metrics[<< e.c, e.k >>].executionTime = t - e.startTime,
                                 !.active[id] = NoExec],
             timers |-> ClearHandles(S.timers, e.c, e.k),
             ref |-> << e.c, e.k >> ]

\* (a termination that leaves the entry's timers armed: what C33 must notice)
terminateExecutionKeepsTimers(S, id, reason, t) ==
  LET e == S.tm.active[id]
  IN  IF e.c = 0
      THEN [tm |-> S.tm, timers |-> S.timers, done |-> FALSE, emitted |-> << >>]
      ELSE [ tm |-> [S.tm EXCEPT !.metrics[<< e.c, e.k >>] =
                                     [@ EXCEPT !.executionTime = t - e.startTime,
                                               !.timedOut = TRUE,
                                               !.reason = reason,
                                               !.terminatedBy = reason],
                                 !.active[id] = NoExec],
             timers |-> S.timers,
             done |-> TRUE,
             emitted |-> << [executionId |-> id, reason |-> reason] >> ]

\* terminateExecution: no worker is ever bound to an entry (both callers of
\* startExecution pass none), so nothing but the entry and its timers ends.
\* emitted: the 'execution-terminated' events of the call.
terminateExecution(S, id, reason, t) ==
  LET e == S.tm.active[id]
  IN  IF e.c = 0
      THEN [tm |-> S.tm, timers |-> S.timers, done |-> FALSE, emitted |-> << >>]
      ELSE [ tm |-> [S.tm EXCEPT !.metrics[<< e.c, e.k >>] =
                                     [@ EXCEPT !.executionTime = t - e.startTime,
                                               !.timedOut = TRUE,
                                               !.reason = reason,
                                               !.terminatedBy = reason],
                                 !.active[id] = NoExec],
             timers |-> ClearHandles(S.timers, e.c, e.k),
             done |-> TRUE,
             emitted |-> << [executionId |-> id, reason |-> reason] >> ]

checkResourceUsage(S, id, t, cpuTimeMs) ==
  LET e == S.tm.active[id]
      S1 == [ tm |-> [S.tm EXCEPT !.metrics[<< e.c, e.k >>].executionTime = t - e.startTime],
              timers |-> S.timers ]
      S2 == [ tm |-> [S1.tm EXCEPT !.metrics[<< e.c, e.k >>].cpuUsage = cpuTimeMs],
              timers |-> S.timers ]
      drop(R) == [tm |-> R.tm, timers |-> R.timers]
  IN  IF e.c = 0 THEN [tm |-> S.tm, timers |-> S.timers]
      ELSE IF t - e.startTime > S.tm.maxExecutionTime
      THEN drop(terminateExecution(S1, id, "MAX_EXECUTION_TIME_EXCEEDED", t))
      ELSE IF cpuTimeMs > MaxCpuTime
      THEN drop(terminateExecution(S2, id, "CPU_TIME_EXCEEDED", t))
      ELSE S2

\* The loop of terminateAllExecutions over the ids that were active when it
\* was called; terminatedCount and the events emitted are carried along.
RECURSIVE terminateAll(_, _, _, _)
terminateAll(S, ids, reason, t) ==
  IF ids = {} THEN S
  ELSE LET id == CHOOSE x \in ids : TRUE
           R  == terminateExecution(S, id, reason, t)
       IN  terminateAll([ tm |-> R.tm, timers |-> R.timers,
                          terminatedCount |-> IF R.done THEN S.terminatedCount + 1
                                              ELSE S.terminatedCount,
                          emitted |-> S.emitted \o R.emitted ],
                        ids \ {id}, reason, t)

terminateAllExecutions(S, reason, t) ==
  terminateAll([tm |-> S.tm, timers |-> S.timers, terminatedCount |-> 0, emitted |-> << >>],
               { id \in ExecIds : S.tm.active[id].c # 0 }, reason, t)

\* ------------------------------------------------------ MainSecurityManager
CountSeverity(vs, sev) == Cardinality({ i \in DOMAIN vs : vs[i].severity = sev })

\* (HIGH from two highs on: what C12 must notice)
RiskLevelFromTwo(c, h, m) ==
  IF c > 0 THEN "CRITICAL"
  ELSE IF h >= 2 THEN "HIGH"
  ELSE IF h > 0 \/ m > 3 THEN "MEDIUM"
  ELSE "LOW"

RiskLevel(c, h, m) ==
  IF c > 0 THEN "CRITICAL"
  ELSE IF h > 2 THEN "HIGH"
  ELSE IF h > 0 \/ m > 3 THEN "MEDIUM"
  ELSE "LOW"

\* (no floor at 0: what C11 must notice)
SecurityScoreUnfloored(c, h, m) == 100 - c * 50 - h * 20 - m * 10

SecurityScore(c, h, m) == Max(0, 100 - c * 50 - h * 20 - m * 10)

\* createSecurityReport: the findings handed in, then the whole log of the
\* module gate, then the whole log of the environment gate.
createSecurityReport(codeViolations, modLog, envLog, peak, m) ==
  LET all == codeViolations \o modLog \o envLog
      c == CountSeverity(all, "CRITICAL")
      h == CountSeverity(all, "HIGH")
      md == CountSeverity(all, "MEDIUM")
  IN  [ violations |-> all,
        safe |-> (c = 0 /\ h = 0),
        riskLevel |-> RiskLevel(c, h, md),
        securityScore |-> SecurityScore(c, h, md),
        memoryUsage |-> [peak |-> peak, current |-> 0, safe |-> isMemoryUsageSafe(m)] ]

NoReport ==
  [ violations |-> << >>, safe |-> TRUE, riskLevel |-> "LOW", securityScore |-> 100,
    memoryUsage |-> [peak |-> 0, current |-> 0, safe |-> TRUE] ]

\* SecureExecutionEngine.parseMemoryLimit on the strings the requests carry.
parseMemoryLimit(text) ==
  CASE text = ""     -> EngineDefaultMemoryLimit
    [] text = "16MB" -> 16 * MiB
    [] text = "512KB" -> 512 * KiB
    [] text = "1GB"  -> 1 * GiB
    [] OTHER         -> EngineDefaultMemoryLimit

\* The SecureExecutionContext executeCode builds from a request.
SecureContext(req) ==
  [ executionId |-> req.id,
    code |-> req.code,
    language |-> req.language,
    timeout |-> IF req.timeout # 0 THEN req.timeout ELSE EngineDefaultTimeout,
    memoryLimit |-> parseMemoryLimit(req.memoryLimit) ]

\* ------------------------------------------------------- the worker's script
\* What the user code prints when it is evaluated: console.log(2+2) prints 4.
UserOutput(code) ==
  LET logs == SelectSeq(code, LAMBDA t : t = "log")
  IN  [i \in 1 .. Len(logs) |-> "4"]

\* The globals of a worker once its script has awaited
\* mainSecurityManager.initialize(): blockDangerousGlobals has replaced eval
\* and Function by functions that throw.
WorkerGlobals == [eval |-> "blocked", Function |-> "blocked"]

NoValue == [output |-> << >>, errors |-> << >>, exitCode |-> -1]

\* The script createSecureWorkerCode builds, run to its 'completed' message,
\* as the parent's message handler resolves it: whatever is thrown inside the
\* try block is posted with exitCode 1.
WorkerScript(language, code) ==
  IF language # "javascript"
  THEN [output |-> << >>, errors |-> << "Language not supported in secure mode" >>,
        exitCode |-> 1]
  ELSE IF WorkerGlobals.eval = "blocked"
  THEN [output |-> << >>, errors |-> << "eval() is blocked for security reasons" >>,
        exitCode |-> 1]
  ELSE IF \E i \in DOMAIN code : code[i] = "undef"
  THEN [output |-> << >>, errors |-> << "undefinedVariable is not defined" >>,
        exitCode |-> 1]
  ELSE [output |-> UserOutput(code), errors |-> << >>, exitCode |-> 0]

\* The violations the gates of a worker have recorded, in the worker's own
\* module instances, once its script has awaited mainSecurityManager
\* .initialize(): those of the self test runSecurityTests makes there (owner:
\* the invocation whose worker it is).  Nothing sends them to the parent.
WorkerGateLog(owner) ==
  analyzeCode(SecurityTestCode, [i \in PatternIndex |-> 0], owner).violations
    \o testBlocking(<< >>, owner)

\* The SecureExecutionResult executeCode builds from what executeSecurely
\* returned to it.
SecureExecutionResult(r) ==
  [ success  |-> r.success,
    output   |-> IF r.value # NoValue THEN r.value.output ELSE << >>,
    errors   |-> IF r.value # NoValue THEN r.value.errors
                 ELSE << (IF r.error # "" THEN r.error ELSE "Execution failed") >>,
    exitCode |-> IF r.success THEN 0 ELSE 1,
    riskLevel |-> r.report.riskLevel,
    securityScore |-> r.report.securityScore,
    violations |-> r.report.violations ]

\* ------------------------------------------------ the gates' interception
\* Module names a require may be given: some of BLOCKED_MODULES, some of
\* ALLOWED_MODULES, and some on neither list.
BLOCKED_MODULES == {"fs", "child_process", "vm"}
ALLOWED_MODULES == {"crypto", "events", "path"}
ModuleNames == BLOCKED_MODULES \cup ALLOWED_MODULES \cup {"lodash", "express"}

\* createSecureModuleProxy: the operations of the module the caller is given;
\* "*" stands for the module as it is.
createSecureModuleProxy(moduleName) ==
  CASE moduleName = "crypto" -> {"randomBytes", "createHash", "createHmac", "timingSafeEqual"}
    [] moduleName = "path"   -> {"join", "resolve", "basename", "dirname", "extname",
                                 "parse", "format", "sep"}
    [] OTHER                 -> {"*"}

ModuleViolation(severity, id, owner) ==
  [type |-> "BLOCKED_MODULE", severity |-> severity, detail |-> id, owner |-> owner]

\* (a gate that lets through what is on neither list: what C26 must notice)
secureRequireDefaultAllow(id, log, layers) ==
  IF id \in BLOCKED_MODULES
  THEN [raised |-> TRUE, value |-> {}, layers |-> 1,
        violations |-> Append(log, ModuleViolation("CRITICAL", id, 0))]
  ELSE [raised |-> FALSE, value |-> createSecureModuleProxy(id), layers |-> layers,
        violations |-> log]

\* secureRequire, the function global.require is after overrideGlobalRequire
\* has run layers times: a name on neither list or on the block list is
\* refused by the outermost function; an allowed one is fetched through
\* originalRequire, which is the function of the installation before.
secureRequire(id, log, layers) ==
  IF id \in BLOCKED_MODULES
  THEN [raised |-> TRUE, value |-> {}, layers |-> 1,
        violations |-> Append(log, ModuleViolation("CRITICAL", id, 0))]
  ELSE IF id \in ALLOWED_MODULES
  THEN [raised |-> FALSE, value |-> createSecureModuleProxy(id), layers |-> layers,
        violations |-> log]
  ELSE [raised |-> TRUE, value |-> {}, layers |-> 1,
        violations |-> Append(log, ModuleViolation("HIGH", id, 0))]

\* Names process.env may be asked for: some of SENSITIVE_VARS, some of
\* ALLOWED_VARS, in either case, and one on neither list.
SENSITIVE_VARS == {"API_KEY", "HOME"}
ALLOWED_VARS == {"NODE_ENV", "TZ"}
EnvNames == {"API_KEY", "api_key", "HOME", "NODE_ENV", "node_env", "TZ", "FOO"}

toUpperCase(prop) ==
  CASE prop = "api_key"  -> "API_KEY"
    [] prop = "node_env" -> "NODE_ENV"
    [] OTHER             -> prop

\* originalProcessEnv, the copy of process.env the constructor took: the
\* values a variable has, none if it is not set.
originalProcessEnv ==
  [ prop \in EnvNames |->
      CASE prop = "API_KEY"  -> {"sk-live"}
        [] prop = "HOME"     -> {"/root"}
        [] prop = "NODE_ENV" -> {"production"}
        [] prop = "FOO"      -> {"bar"}
        [] OTHER             -> {} ]

\* (a get trap that hands out what is on neither list: what C28 must notice)
envGetOpen(prop, log) ==
  IF toUpperCase(prop) \in SENSITIVE_VARS
  THEN [raised |-> TRUE, value |-> {},
        violations |-> Append(log, EnvViolation("SENSITIVE_VAR_ACCESS", "CRITICAL", prop, 0))]
  ELSE [raised |-> FALSE, value |-> originalProcessEnv[prop], violations |-> log]

\* The get trap of the secure process.env.
envGet(prop, log) ==
  IF toUpperCase(prop) \in SENSITIVE_VARS
  THEN [raised |-> TRUE, value |-> {},
        violations |-> Append(log, EnvViolation("SENSITIVE_VAR_ACCESS", "CRITICAL", prop, 0))]
  ELSE IF toUpperCase(prop) \in ALLOWED_VARS
  THEN [raised |-> FALSE, value |-> originalProcessEnv[prop], violations |-> log]
  ELSE [raised |-> FALSE, value |-> {},
        violations |-> Append(log, EnvViolation("ENV_ACCESS_BLOCKED", "HIGH", prop, 0))]

\* (a set trap that refuses without raising: what C29 must notice)
envSetQuiet(prop, log) ==
  [raised |-> FALSE, value |-> {},
   violations |-> Append(log, EnvViolation("ENV_ACCESS_BLOCKED", "HIGH", prop, 0))]

\* The set trap: the value offered is not looked at.
envSet(prop, log) ==
  [raised |-> TRUE, value |-> {},
   violations |-> Append(log, EnvViolation("ENV_ACCESS_BLOCKED", "HIGH", prop, 0))]

\* (an enumeration that lists every variable that is set: what C30 must notice)
envOwnKeysAll(log) ==
  [raised |-> FALSE, value |-> { prop \in EnvNames : originalProcessEnv[prop] # {} },
   violations |-> Append(log, EnvViolation("ENV_ENUMERATION", "HIGH", "", 0))]

\* Object.keys(process.env): the ownKeys trap, then getOwnPropertyDescriptor
\* for each name it returned.
envOwnKeys(log) ==
  [raised |-> FALSE,
   value |-> { prop \in ALLOWED_VARS : toUpperCase(prop) \in ALLOWED_VARS },
   violations |-> Append(log, EnvViolation("ENV_ENUMERATION", "HIGH", "", 0))]

\* createSafeEnvironment: the map it returns, as its set of << name, value >>
\* entries: the allowed variables that are set, then NODE_ENV and SANDBOX
\* assigned on top.
createSafeEnvironment ==
  LET copied == UNION { { << v, x >> : x \in originalProcessEnv[v] } : v \in ALLOWED_VARS }
  IN  { e \in copied : e[1] # "NODE_ENV" }
        \cup { << "NODE_ENV", "sandbox" >>, << "SANDBOX", "true" >> }

NoLast == [op |-> "none", name |-> "", raised |-> FALSE, value |-> {}, layers |-> 0]
NoGate == [layers |-> 0, pending |-> 0, ops |-> 0, last |-> NoLast]

\* initialize() from the initialized check to its await: the module gate is
\* installed once more, then the environment gate, whose defineProperty of a
\* process.env that is no longer configurable raises; then runSecurityTests.
\* ok: the call reached the await and will set initialized.
initializeSync(layers, log, li, elog, installed) ==
  IF installed
  THEN [ok |-> FALSE, layers |-> layers + 1, modViolations |-> log, lastIndex |-> li,
        envViolations |-> elog]
  ELSE LET scan == analyzeCode(SecurityTestCode, li, 0)
       IN  [ok |-> ~scan.safe, layers |-> layers + 1,
            modViolations |-> log \o scan.violations, lastIndex |-> scan.lastIndex,
            envViolations |-> IF scan.safe THEN elog ELSE testBlocking(elog, 0)]

\* ------------------------------------------------------------ initial state
\* before: the invocations that had already returned or thrown when this one
\* was made (every other invocation made earlier was still in flight).
IdleCall ==
  [ pc |-> "idle", id |-> "", code |-> << >>, language |-> "", timeout |-> 0,
    memoryLimit |-> 0,
    startTime |-> 0, codeViolations |-> << >>, originalTimeout |-> 0, before |-> {},
    cpuAtStart |-> 0 ]

\* What executeSecurely hands back (kind, success, error, report, and value:
\* the executor's result), with two fields kept beside it for the record:
\* metrics, the executionResult.metrics it received from executeWithTimeout
\* and passed to createSecurityReport, and at, the time of the return.
NoResult ==
  [ kind |-> "none", success |-> FALSE, error |-> "", report |-> NoReport,
    value |-> NoValue, metrics |-> NoMetrics, at |-> 0 ]

Init ==
  /\ initialized = FALSE
  /\ strictMode = TRUE
  /\ modViolations = << >>
  /\ lastIndex = [i \in PatternIndex |-> 0]
  /\ envViolations = << >>
  /\ envInstalled = FALSE
  /\ tm = [ maxExecutionTime |-> DefaultMaxExecutionTime,
            active |-> [id \in ExecIds |-> NoExec],
            metrics |-> [h \in Handles |-> NoMetrics] ]
  /\ mm = EmptyMonitor
  /\ timers = << >>
  /\ call = [c \in Calls |-> IdleCall]
  /\ result = [c \in Calls |-> NoResult]
  /\ unit = [c \in Calls |-> "none"]
  /\ now = 0
  /\ mem = MemNormal
  /\ cpu = 0
  /\ memMoves = 0
  /\ crashed = FALSE
  /\ gate = NoGate

\* ------------------------------------------------------------- event loop
DueTimers == { i \in DOMAIN timers : timers[i].due <= now }

NextTimer ==
  CHOOSE i \in DueTimers :
    \A j \in DueTimers : \/ timers[i].due < timers[j].due
                         \/ timers[i].due = timers[j].due /\ i <= j

RemoveAt(ts, i) == SubSeq(ts, 1, i - 1) \o SubSeq(ts, i + 1, Len(ts))

Awaiting == { c \in Calls : call[c].pc = "awaiting" }

\* ------------------------------------------------------------ initialize()
\* initialize() called by a caller that awaits it: the gates are installed,
\* runSecurityTests scans the test text and exercises the environment gate,
\* and initialized is set, unless one of these raised.
Initialize ==
  /\ ~crashed
  /\ initialized \/ gate.layers < MaxLayers
  /\ IF initialized
     THEN UNCHANGED << initialized, modViolations, lastIndex, envViolations, envInstalled, gate >>
     ELSE LET R == initializeSync(gate.layers, modViolations, lastIndex, envViolations,
                                  envInstalled)
          IN  /\ gate' = [gate EXCEPT !.layers = R.layers]
              /\ envInstalled' = TRUE
              /\ modViolations' = R.modViolations
              /\ lastIndex' = R.lastIndex
              /\ envViolations' = R.envViolations
              /\ initialized' = R.ok
  /\ UNCHANGED << strictMode, tm, mm, timers, call, result, unit, now, mem, cpu, memMoves, crashed >>

\* --------------------------------------------------------- executeSecurely
\* From the call to the first await.  The executor is
\* SecureExecutionEngine.executeInSecureEnvironment: it starts the worker
\* and arms the worker's own timeout.
ExecuteSecurely(c, req) ==
  LET ctx     == SecureContext(req)
      id      == ctx.executionId
      scan    == analyzeCode(ctx.code, lastIndex, c)
      modLog  == modViolations \o scan.violations
      fresh   == ~mm.isMonitoring
      first   == checkMemoryUsage([EmptyMonitor EXCEPT !.isMonitoring = TRUE],
                                  mem, now, Awaiting \cup {c})
      ts0     == IF fresh THEN Append(timers, MemTimer(now + MemCheckInterval)) ELSE timers
      custom  == IF ctx.timeout # 0 THEN ctx.timeout ELSE DefaultMaxExecutionTime
      S1      == startExecution([tm |-> tm, timers |-> ts0], id, c, 1, now)
      S2      == startExecution([tm |-> [S1.tm EXCEPT !.maxExecutionTime = custom],
                                 timers |-> S1.timers], id, c, 2, now)
      unitDue == now + (IF req.timeout # 0 THEN req.timeout ELSE EngineDefaultTimeout)
      entered == [ IdleCall EXCEPT !.id = id, !.code = ctx.code,
                                   !.language = ctx.language, !.timeout = ctx.timeout,
                                   !.memoryLimit = ctx.memoryLimit, !.startTime = now,
                                   !.codeViolations = scan.violations,
                                   !.before = { d \in Calls : call[d].pc \in {"returned", "threw"} },
                                   !.cpuAtStart = cpu ]
  IN
  /\ ~crashed
  /\ call[c].pc = "idle"
  /\ \A d \in Calls : d < c => call[d].pc # "idle"
  /\ IF ~initialized
     THEN \* throw new Error('Security manager not initialized')
          /\ call' = [call EXCEPT ![c] = [entered EXCEPT !.pc = "threw", !.codeViolations = << >>]]
          /\ result' = [result EXCEPT ![c] =
                          [NoResult EXCEPT !.kind = "threw",
                                           !.error = "Security manager not initialized",
                                           !.at = now]]
          /\ UNCHANGED << modViolations, lastIndex, tm, mm, timers, unit >>
     ELSE
          /\ modViolations' = modLog
          /\ lastIndex' = scan.lastIndex
          /\ IF ~scan.safe /\ strictMode
             THEN \* rejected before execution
                  /\ call' = [call EXCEPT ![c] = [entered EXCEPT !.pc = "returned"]]
                  /\ result' = [result EXCEPT ![c] =
                       [NoResult EXCEPT
                          !.kind = "returned",
                          !.error = "Code failed security analysis - contains dangerous patterns",
                          !.report = createSecurityReport(scan.violations, modLog,
                                                          envViolations, 0, mem),
                          !.at = now]]
                  /\ UNCHANGED << tm, mm, timers, unit >>
             ELSE IF fresh /\ first.threw
             THEN \* the first sample of startMonitoring raises out of executeSecurely
                  /\ call' = [call EXCEPT ![c] = [entered EXCEPT !.pc = "threw"]]
                  /\ result' = [result EXCEPT ![c] =
                                  [NoResult EXCEPT !.kind = "threw",
                                                   !.error = "Memory limit exceeded",
                                                   !.at = now]]
                  /\ mm' = first.mm
                  /\ timers' = ts0
                  /\ UNCHANGED << tm, unit >>
             ELSE /\ call' = [call EXCEPT ![c] =
                                [entered EXCEPT !.pc = "awaiting",
                                                !.originalTimeout = S1.tm.maxExecutionTime]]
                  /\ mm' = IF fresh THEN first.mm ELSE mm
                  /\ tm' = S2.tm
                  /\ timers' = S2.timers \o << UnitTimer(c, unitDue),
                                               RaceTimer(c, now + custom) >>
                  /\ unit' = [unit EXCEPT ![c] = "running"]
                  /\ UNCHANGED result
  /\ UNCHANGED << initialized, strictMode, envViolations, envInstalled, now, mem, cpu, memMoves, crashed, gate >>

\* From the settling of the race in executeWithTimeout to the return of
\* executeSecurely; ts are the timers left by the event that settled it.
Settle(c, ok, msg, ts) ==
  LET id   == call[c].id
      R1   == stopExecution([tm |-> tm, timers |-> ts], id, now)
      ref  == IF R1.ref = NoHandle THEN << c, 2 >> ELSE R1.ref
      tm1  == IF ok THEN R1.tm
              ELSE [R1.tm EXCEPT !.metrics[ref] = [@ EXCEPT !.timedOut = TRUE, !.reason = msg]]
      tm2  == [tm1 EXCEPT !.maxExecutionTime = call[c].originalTimeout]
      SM   == stopMonitoring(mm, R1.timers)
      R2   == stopExecution([tm |-> tm2, timers |-> SM.timers], id, now)
  IN  /\ tm' = R2.tm
      /\ timers' = R2.timers
      /\ mm' = SM.mm
      /\ call' = [call EXCEPT ![c].pc = "returned"]
      /\ result' = [result EXCEPT ![c] =
                      [ kind |-> "returned", success |-> ok, error |-> msg,
                        report |-> createSecurityReport(call[c].codeViolations, modViolations,
                                                        envViolations, SM.peakHeapUsed, mem),
                        value |-> IF ok THEN WorkerScript(call[c].language, call[c].code)
                                  ELSE NoValue,
                        metrics |-> tm2.metrics[ref], at |-> now ]]

WithoutUnitTimer(ts, c) == SelectSeq(ts, LAMBDA x : ~(x.kind = "unit" /\ x.c = c))

\* The worker posts 'completed': the worker's timeout is cleared and the
\* executor's promise resolves.
UnitCompletes(c) ==
  /\ ~crashed
  /\ unit[c] = "running"
  /\ call[c].pc = "awaiting"
  /\ unit' = [unit EXCEPT ![c] = "exited"]
  /\ Settle(c, TRUE, "", WithoutUnitTimer(timers, c))
  /\ UNCHANGED << initialized, strictMode, modViolations, lastIndex, envViolations,
                  envInstalled, now, mem, cpu, memMoves, crashed, gate >>

\* The worker emits 'error' or exits with a code other than 0: the promise rejects.
UnitFaults(c) ==
  /\ ~crashed
  /\ unit[c] = "running"
  /\ call[c].pc = "awaiting"
  /\ unit' = [unit EXCEPT ![c] = "exited"]
  /\ Settle(c, FALSE, "Worker error", WithoutUnitTimer(timers, c))
  /\ UNCHANGED << initialized, strictMode, modViolations, lastIndex, envViolations,
                  envInstalled, now, mem, cpu, memMoves, crashed, gate >>

\* The deadline timer of a startExecution fires: terminateExecution(id, ...).
DeadlineFires ==
  /\ ~crashed
  /\ DueTimers # {}
  /\ timers[NextTimer].kind = "deadline"
  /\ LET x == timers[NextTimer]
         R == terminateExecution([tm |-> tm, timers |-> RemoveAt(timers, NextTimer)],
                                 x.id, "EXECUTION_TIMEOUT", now)
     IN  /\ tm' = R.tm
         /\ timers' = R.timers
  /\ UNCHANGED << initialized, strictMode, modViolations, lastIndex, envViolations,
                  envInstalled, mm, call, result, unit, now, mem, cpu, memMoves, crashed, gate >>

\* The periodic sampler of a startExecution fires: checkResourceUsage(id).
SamplerFires ==
  /\ ~crashed
  /\ DueTimers # {}
  /\ timers[NextTimer].kind = "sampler"
  /\ LET x  == timers[NextTimer]
         ts == Append(RemoveAt(timers, NextTimer),
                      SamplerTimer(x.c, x.k, x.id, now + TimeoutCheckInterval))
         R  == checkResourceUsage([tm |-> tm, timers |-> ts], x.id, now, cpu)
     IN  /\ tm' = R.tm
         /\ timers' = R.timers
  /\ UNCHANGED << initialized, strictMode, modViolations, lastIndex, envViolations,
                  envInstalled, mm, call, result, unit, now, mem, cpu, memMoves, crashed, gate >>

\* The worker's own timeout (executeInSecureEnvironment) fires:
\* worker.terminate(), then the executor's promise rejects.
UnitTimeoutFires ==
  /\ ~crashed
  /\ DueTimers # {}
  /\ timers[NextTimer].kind = "unit"
  /\ LET c == timers[NextTimer].c
     IN  /\ unit' = [unit EXCEPT ![c] = "terminated"]
         /\ IF call[c].pc = "awaiting"
            THEN Settle(c, FALSE, "Execution timeout - code took too long to execute",
                        RemoveAt(timers, NextTimer))
            ELSE /\ timers' = RemoveAt(timers, NextTimer)
                 /\ UNCHANGED << tm, mm, call, result >>
  /\ UNCHANGED << initialized, strictMode, modViolations, lastIndex, envViolations,
                  envInstalled, now, mem, cpu, memMoves, crashed, gate >>

\* The timer racing the executor in executeWithTimeout fires.
RaceTimeoutFires ==
  /\ ~crashed
  /\ DueTimers # {}
  /\ timers[NextTimer].kind = "race"
  /\ LET c == timers[NextTimer].c
     IN  IF call[c].pc = "awaiting"
         THEN Settle(c, FALSE, "Execution timeout", RemoveAt(timers, NextTimer))
         ELSE /\ timers' = RemoveAt(timers, NextTimer)
              /\ UNCHANGED << tm, mm, call, result >>
  /\ UNCHANGED << initialized, strictMode, modViolations, lastIndex, envViolations,
                  envInstalled, unit, now, mem, cpu, memMoves, crashed, gate >>

\* The memory monitor's interval fires: checkMemoryUsage().  A CRITICAL
\* violation raises inside the timer callback; nothing catches it and the
\* process ends, its workers with it.
MemoryCheckFires ==
  /\ ~crashed
  /\ DueTimers # {}
  /\ timers[NextTimer].kind = "mem"
  /\ LET R == checkMemoryUsage(mm, mem, now, Awaiting)
     IN  /\ mm' = R.mm
         /\ crashed' = R.threw
         /\ unit' = IF R.threw
                    THEN [c \in Calls |-> IF unit[c] = "running" THEN "killed" ELSE unit[c]]
                    ELSE unit
  /\ timers' = Append(RemoveAt(timers, NextTimer), MemTimer(now + MemCheckInterval))
  /\ UNCHANGED << initialized, strictMode, modViolations, lastIndex, envViolations,
                  envInstalled, tm, call, result, now, mem, cpu, memMoves, gate >>

\* shutdown()
Shutdown ==
  /\ ~crashed
  /\ LET R  == terminateAllExecutions([tm |-> tm, timers |-> timers], "SYSTEM_SHUTDOWN", now)
         SM == stopMonitoring(mm, R.timers)
     IN  /\ tm' = R.tm
         /\ mm' = SM.mm
         /\ timers' = SM.timers
  /\ initialized' = FALSE
  /\ UNCHANGED << strictMode, modViolations, lastIndex, envViolations, envInstalled,
                  call, result, unit, now, mem, cpu, memMoves, crashed, gate >>

\* Time passes once every due timer has fired; memory and CPU readings move.
Tick(m, u) ==
  /\ crashed \/ DueTimers = {}
  /\ now < MaxTicks * MemCheckInterval
  /\ now' = now + MemCheckInterval
  /\ IF crashed THEN UNCHANGED << mem, cpu, memMoves >>
     ELSE /\ m # mem => memMoves < MaxMemMoves
          /\ mem' = m
          /\ memMoves' = IF m # mem THEN memMoves + 1 ELSE memMoves
          /\ u >= cpu
          /\ cpu' = u
  /\ UNCHANGED << initialized, strictMode, modViolations, lastIndex, envViolations,
                  envInstalled, tm, mm, timers, call, result, unit, crashed, gate >>

Next ==
  \/ Initialize
  \/ \E c \in Calls, req \in Requests : ExecuteSecurely(c, req)
  \/ \E c \in Calls : UnitCompletes(c)
  \/ \E c \in Calls : UnitFaults(c)
  \/ DeadlineFires
  \/ SamplerFires
  \/ UnitTimeoutFires
  \/ RaceTimeoutFires
  \/ MemoryCheckFires
  \/ Shutdown
  \/ \E m \in MemLevels, u \in CpuLevels : Tick(m, u)

Spec == Init /\ [][Next]_vars

\* ------------------------------------------- createSecurityReport by itself
\* The lists createSecurityReport reads may hold violations of any severity:
\* the specification below draws the two logs in its initial state and the
\* findings handed in at each call, and builds the report as the code does.
Severities == {"CRITICAL", "HIGH", "MEDIUM", "LOW"}

Listed(sev, owner) ==
  [type |-> "LISTED", severity |-> sev, detail |-> "", owner |-> owner]

ListedUpTo(n, owner) ==
  UNION { [1 .. k -> { Listed(sev, owner) : sev \in Severities }] : k \in 0 .. n }

ReportInit ==
  /\ initialized = TRUE
  /\ strictMode = TRUE
  /\ modViolations \in ListedUpTo(MaxListed, 0)
  /\ lastIndex = [i \in PatternIndex |-> 0]
  /\ envViolations \in ListedUpTo(MaxEnvListed, 0)
  /\ envInstalled = TRUE
  /\ tm = [ maxExecutionTime |-> DefaultMaxExecutionTime,
            active |-> [id \in ExecIds |-> NoExec],
            metrics |-> [h \in Handles |-> NoMetrics] ]
  /\ mm = EmptyMonitor
  /\ timers = << >>
  /\ call = [c \in Calls |-> IdleCall]
  /\ result = [c \in Calls |-> NoResult]
  /\ unit = [c \in Calls |-> "none"]
  /\ now = 0
  /\ mem = MemNormal
  /\ cpu = 0
  /\ memMoves = 0
  /\ crashed = FALSE
  /\ gate = [NoGate EXCEPT !.layers = 1]

CreateReport(c, codeViolations) ==
  /\ result[c].kind = "none"
  /\ \A d \in Calls : d < c => result[d].kind # "none"
  /\ result' = [result EXCEPT ![c] =
                  [ kind |-> "returned", success |-> FALSE, error |-> "",
                    report |-> createSecurityReport(codeViolations, modViolations,
                                                    envViolations, 0, mem),
                    value |-> NoValue, metrics |-> NoMetrics, at |-> now ]]
  /\ UNCHANGED << initialized, strictMode, modViolations, lastIndex, envViolations,
                  envInstalled, tm, mm, timers, call, unit, now, mem, cpu, memMoves,
                  crashed, gate >>

ReportNext == \E cv \in ListedUpTo(MaxListed, 1) : CreateReport(1, cv)

ReportSpec == ReportInit /\ [][ReportNext]_vars

\* ------------------------------------------------- the execution service
\* POST /execute hands the request to SimpleExecutionEngine.executeCode,
\* which evaluates JavaScript and TypeScript with eval inside the server
\* process and gives every other language to an interpreter it spawns.
ServicePieces == {"reqfs", "reqcp", "log", "undef", "loop"}
ServiceLanguages == {"javascript", "typescript", "python"}

ServiceCodes == UNION { [1 .. n -> ServicePieces] : n \in 1 .. MaxPieces }

\* The first statement of the code that does not simply return: 0 if none.
FirstStop(code) ==
  LET stops == { i \in DOMAIN code : code[i] \in {"undef", "loop"} }
  IN  IF stops = {} THEN 0 ELSE CHOOSE i \in stops : \A j \in stops : i <= j

\* executeJavaScript: the require of the module evaluating the code is in
\* scope of the eval, so a require of fs or child_process succeeds; "hangs"
\* stands for an eval that never returns.
executeJavaScript(code) ==
  LET stop == FirstStop(code)
      ran  == IF stop = 0 THEN code ELSE SubSeq(code, 1, stop - 1)
  IN  IF stop # 0 /\ code[stop] = "loop"
      THEN [hangs |-> TRUE, success |-> FALSE, output |-> << >>, errors |-> << >>,
            exitCode |-> 0]
      ELSE IF stop # 0
      THEN [hangs |-> FALSE, success |-> FALSE, output |-> UserOutput(ran),
            errors |-> << "undefinedVariable is not defined" >>, exitCode |-> 1]
      ELSE [hangs |-> FALSE, success |-> TRUE, output |-> UserOutput(ran),
            errors |-> << >>, exitCode |-> 0]

\* executeWithSpawn of the Python interpreter on a JavaScript text: the
\* child closes with a code other than 0, or cannot be started.
executePython(code) ==
  [hangs |-> FALSE, success |-> FALSE, output |-> << >>,
   errors |-> << "python" >>, exitCode |-> 1]

SimpleSecurityReport == [NoReport EXCEPT !.riskLevel = "low"]

ServiceInit ==
  /\ initialized = FALSE
  /\ strictMode = TRUE
  /\ modViolations = << >>
  /\ lastIndex = [i \in PatternIndex |-> 0]
  /\ envViolations = << >>
  /\ envInstalled = FALSE
  /\ tm = [ maxExecutionTime |-> DefaultMaxExecutionTime,
            active |-> [id \in ExecIds |-> NoExec],
            metrics |-> [h \in Handles |-> NoMetrics] ]
  /\ mm = EmptyMonitor
  /\ timers = << >>
  /\ call = [c \in Calls |-> IdleCall]
  /\ result = [c \in Calls |-> NoResult]
  /\ unit = [c \in Calls |-> "none"]
  /\ now = 0
  /\ mem = MemNormal
  /\ cpu = 0
  /\ memMoves = 0
  /\ crashed = FALSE
  /\ gate = NoGate

\* app.post('/execute'): the whole handler; an eval that never returns
\* blocks the server's only thread, and with it every later request.
PostExecute(c, language, code) ==
  LET r == IF language \in {"javascript", "typescript"}
           THEN executeJavaScript(code) ELSE executePython(code)
  IN  /\ call[c].pc = "idle"
      /\ \A d \in Calls : d < c => call[d].pc = "returned"
      /\ call' = [call EXCEPT ![c] =
                    [IdleCall EXCEPT !.pc = IF r.hangs THEN "hangs" ELSE "returned",
                                     !.code = code, !.language = language, !.startTime = now]]
      /\ result' = IF r.hangs THEN result
                   ELSE [result EXCEPT ![c] =
                           [NoResult EXCEPT
                              !.kind = "returned",
                              !.success = r.success,
                              !.value = [output |-> r.output, errors |-> r.errors,
                                         exitCode |-> r.exitCode],
                              !.report = SimpleSecurityReport,
                              !.at = now]]
      /\ UNCHANGED << initialized, strictMode, modViolations, lastIndex, envViolations,
                      envInstalled, tm, mm, timers, unit, now, mem, cpu, memMoves,
                      crashed, gate >>

ServiceNext ==
  \E c \in Calls, language \in ServiceLanguages, code \in ServiceCodes :
    PostExecute(c, language, code)

ServiceSpec == ServiceInit /\ [][ServiceNext]_vars

\* ------------------------------------------- per-request timeout overrides
\* The coordinator under requests that carry every kind of timeout: none,
\* one below the process-wide maxExecutionTime, that value itself, and one
\* above it.
OverrideTimeouts == {0, 1000, DefaultMaxExecutionTime, 2 * DefaultMaxExecutionTime}

OverrideRequests ==
  { [id |-> id, code |-> CodeBenign, language |-> "javascript",
     timeout |-> t, memoryLimit |-> ""] : id \in ExecIds, t \in OverrideTimeouts }

OverrideNext ==
  \/ Initialize
  \/ \E c \in Calls, req \in OverrideRequests : ExecuteSecurely(c, req)
  \/ \E c \in Calls : UnitCompletes(c)

OverrideSpec == Init /\ [][OverrideNext]_vars

\* ------------------------------------------------------ getSecurityStatus
\* TimeoutManager.healthCheck: the report it returns and the manager as the
\* call leaves it.
\* (a health check that drops the entries it has counted: what C25 must notice)
healthCheckPruning(T) ==
  [ report |-> [ healthy |-> TRUE,
                 activeExecutions |-> Cardinality({ id \in ExecIds : T.active[id].c # 0 }),
                 maxExecutionTime |-> T.maxExecutionTime ],
    tm |-> [T EXCEPT !.active = [id \in ExecIds |-> NoExec]] ]

healthCheck(T) ==
  [ report |-> [ healthy |-> TRUE,
                 activeExecutions |-> Cardinality({ id \in ExecIds : T.active[id].c # 0 }),
                 maxExecutionTime |-> T.maxExecutionTime ],
    tm |-> T ]

\* What getSecurityStatus returns, read from the coordinator, the two gates
\* and the two supervisors.
getSecurityStatus ==
  [ initialized |-> initialized,
    strictMode |-> strictMode,
    moduleBlocking |->
      [ totalViolations |-> Len(modViolations),
        isSecure |-> /\ CountSeverity(modViolations, "CRITICAL") = 0
                     /\ CountSeverity(modViolations, "HIGH") = 0 ],
    environmentBlocking |->
      [ totalViolations |-> Len(envViolations),
        isSecure |-> CountSeverity(envViolations, "CRITICAL") = 0 ],
    memoryMonitoring |->
      [ safe |-> isMemoryUsageSafe(mem),
        heapUsed |-> mem.heapUsed,
        peakHeapUsed |-> mm.peakHeapUsed,
        violations |-> Len(mm.violations) ],
    timeoutManagement |-> healthCheck(tm).report ]

\* What the invocations were doing when a status was read, for the record.
Seen ==
  [ initialized |-> initialized,
    pc |-> [d \in Calls |-> IF call[d].pc \in {"idle", "status"} THEN "none" ELSE call[d].pc] ]

\* A caller reads the status; slot c keeps the last status it was given.
GetSecurityStatus(c) ==
  /\ ~crashed
  /\ call[c].pc \in {"idle", "status"}
  /\ \A d \in Calls : d < c => call[d].pc # "idle"
  /\ tm' = healthCheck(tm).tm
  /\ call' = [call EXCEPT ![c].pc = "status"]
  /\ result' = [result EXCEPT ![c] =
                  [kind |-> "status", status |-> getSecurityStatus, seen |-> Seen]]
  /\ UNCHANGED << initialized, strictMode, modViolations, lastIndex, envViolations,
                  envInstalled, mm, timers, unit, now, mem, cpu, memMoves, crashed, gate >>

StatusNext ==
  \/ Initialize
  \/ \E c \in Calls, req \in Requests : ExecuteSecurely(c, req)
  \/ \E c \in Calls : UnitCompletes(c)
  \/ \E c \in Calls : UnitFaults(c)
  \/ Shutdown
  \/ \E c \in Calls : GetSecurityStatus(c)

StatusSpec == Init /\ [][StatusNext]_vars

\* ------------------------------------------------- the gates, call by call
\* initialize() as the event loop runs it: from the call to the await of
\* runSecurityTests, and from there to the end.  A second call may arrive in
\* between (SecureExecutionEngine's constructor does not await the
\* initialization it starts, executeCode starts another if the first has not
\* finished).
InitializeEnters ==
  /\ ~crashed
  /\ initialized \/ gate.layers < MaxLayers
  /\ IF initialized
     THEN UNCHANGED << modViolations, lastIndex, envViolations, envInstalled, gate >>
     ELSE LET R == initializeSync(gate.layers, modViolations, lastIndex, envViolations,
                                  envInstalled)
          IN  /\ gate' = [gate EXCEPT !.layers = R.layers,
                                      !.pending = IF R.ok THEN @ + 1 ELSE @,
                                      !.last = [NoLast EXCEPT !.op = "initialize",
                                                              !.raised = ~R.ok,
                                                              !.layers = R.layers]]
              /\ envInstalled' = TRUE
              /\ modViolations' = R.modViolations
              /\ lastIndex' = R.lastIndex
              /\ envViolations' = R.envViolations
  /\ UNCHANGED << initialized, strictMode, tm, mm, timers, call, result, unit, now, mem,
                  cpu, memMoves, crashed >>

InitializeResumes ==
  /\ ~crashed
  /\ gate.pending > 0
  /\ initialized' = TRUE
  /\ gate' = [gate EXCEPT !.pending = @ - 1]
  /\ UNCHANGED << strictMode, modViolations, lastIndex, envViolations, envInstalled, tm, mm,
                  timers, call, result, unit, now, mem, cpu, memMoves, crashed >>

\* A caller's outcome of one call through a gate.
Outcome(op, name, R, layers) ==
  [op |-> op, name |-> name, raised |-> R.raised, value |-> R.value, layers |-> layers]

\* require(id) through global.require, once the module gate is installed.
Require(id) ==
  /\ ~crashed
  /\ gate.layers > 0
  /\ gate.ops < MaxGateOps
  /\ LET R == secureRequire(id, modViolations, gate.layers)
     IN  /\ modViolations' = R.violations
         /\ gate' = [gate EXCEPT !.ops = @ + 1, !.last = Outcome("require", id, R, R.layers)]
  /\ UNCHANGED << initialized, strictMode, lastIndex, envViolations, envInstalled, tm, mm,
                  timers, call, result, unit, now, mem, cpu, memMoves, crashed >>

\* process.env[prop], once the environment gate is installed.
EnvGet(prop) ==
  /\ ~crashed
  /\ envInstalled
  /\ gate.ops < MaxGateOps
  /\ LET R == envGet(prop, envViolations)
     IN  /\ envViolations' = R.violations
         /\ gate' = [gate EXCEPT !.ops = @ + 1, !.last = Outcome("get", prop, R, 1)]
  /\ UNCHANGED << initialized, strictMode, modViolations, lastIndex, envInstalled, tm, mm,
                  timers, call, result, unit, now, mem, cpu, memMoves, crashed >>

\* process.env[prop] = value
EnvSet(prop) ==
  /\ ~crashed
  /\ envInstalled
  /\ gate.ops < MaxGateOps
  /\ LET R == envSet(prop, envViolations)
     IN  /\ envViolations' = R.violations
         /\ gate' = [gate EXCEPT !.ops = @ + 1, !.last = Outcome("set", prop, R, 1)]
  /\ UNCHANGED << initialized, strictMode, modViolations, lastIndex, envInstalled, tm, mm,
                  timers, call, result, unit, now, mem, cpu, memMoves, crashed >>

\* Object.keys(process.env)
EnvKeys ==
  /\ ~crashed
  /\ envInstalled
  /\ gate.ops < MaxGateOps
  /\ LET R == envOwnKeys(envViolations)
     IN  /\ envViolations' = R.violations
         /\ gate' = [gate EXCEPT !.ops = @ + 1, !.last = Outcome("keys", "", R, 1)]
  /\ UNCHANGED << initialized, strictMode, modViolations, lastIndex, envInstalled, tm, mm,
                  timers, call, result, unit, now, mem, cpu, memMoves, crashed >>

\* environmentBlocker.createSafeEnvironment()
CreateSafeEnvironment ==
  /\ ~crashed
  /\ gate.ops < MaxGateOps
  /\ gate' = [gate EXCEPT !.ops = @ + 1,
                          !.last = [NoLast EXCEPT !.op = "subset",
                                                  !.value = createSafeEnvironment]]
  /\ UNCHANGED << initialized, strictMode, modViolations, lastIndex, envViolations,
                  envInstalled, tm, mm, timers, call, result, unit, now, mem, cpu, memMoves,
                  crashed >>

GateNext ==
  \/ InitializeEnters
  \/ InitializeResumes
  \/ Shutdown
  \/ \E id \in ModuleNames : Require(id)
  \/ \E prop \in EnvNames : EnvGet(prop)
  \/ \E prop \in EnvNames : EnvSet(prop)
  \/ EnvKeys
  \/ CreateSafeEnvironment

GateSpec == Init /\ [][GateNext]_vars

\* ============================================ the memory monitor's history
\* The monitor alone, late in a monitoring session: the history already
\* holds nearly or exactly its limit of samples, taken one interval apart.
MaxHistorySamples == 3

MemAllHi == [heapUsed |-> 200 * MiB, rss |-> 300 * MiB, arrayBuffers |-> 65 * MiB]
MemGrown == [heapUsed |-> 100 * MiB, rss |-> 160 * MiB, arrayBuffers |-> MiB]
HistoryLevels == MemLevels \cup {MemAllHi, MemGrown}

HistoryStart == HistoryLimit * MemCheckInterval

LongHistory(n) ==
  [i \in 1 .. n |-> [heapUsed |-> MemNormal.heapUsed, rss |-> MemNormal.rss,
                     arrayBuffers |-> MemNormal.arrayBuffers,
                     timestamp |-> HistoryStart - (n - i + 1) * MemCheckInterval,
                     during |-> {}]]

HistoryInit ==
  /\ initialized = TRUE
  /\ strictMode = TRUE
  /\ modViolations = << >>
  /\ lastIndex = [i \in PatternIndex |-> 0]
  /\ envViolations = << >>
  /\ envInstalled = TRUE
  /\ tm = [ maxExecutionTime |-> DefaultMaxExecutionTime,
            active |-> [id \in ExecIds |-> NoExec],
            metrics |-> [h \in Handles |-> NoMetrics] ]
  /\ \E n \in {HistoryLimit - 1, HistoryLimit} :
       mm = [EmptyMonitor EXCEPT !.isMonitoring = TRUE,
                                 !.memoryHistory = LongHistory(n),
                                 !.peakHeapUsed = MemNormal.heapUsed,
                                 !.peakRss = MemNormal.rss]
  /\ timers = << MemTimer(HistoryStart) >>
  /\ call = [c \in Calls |-> IdleCall]
  /\ result = [c \in Calls |-> NoResult]
  /\ unit = [c \in Calls |-> "none"]
  /\ now = HistoryStart
  /\ mem = MemNormal
  /\ cpu = 0
  /\ memMoves = 0
  /\ crashed = FALSE
  /\ gate = [NoGate EXCEPT !.layers = 1]

\* The interval fires and a sample is taken; the reading is whatever the
\* process's memory is at that moment.
HistorySample(m) ==
  /\ ~crashed
  /\ DueTimers # {}
  /\ timers[NextTimer].kind = "mem"
  /\ LET R == checkMemoryUsage(mm, m, now, {})
     IN  /\ mm' = R.mm
         /\ crashed' = R.threw
  /\ mem' = m
  /\ timers' = Append(RemoveAt(timers, NextTimer), MemTimer(now + MemCheckInterval))
  /\ UNCHANGED << initialized, strictMode, modViolations, lastIndex, envViolations,
                  envInstalled, tm, call, result, unit, now, cpu, memMoves, gate >>

HistoryStartMonitoring(m) ==
  /\ ~crashed
  /\ LET R == startMonitoring(mm, timers, m, now, {})
     IN  /\ mm' = R.mm
         /\ timers' = R.timers
         /\ crashed' = R.threw
  /\ mem' = m
  /\ UNCHANGED << initialized, strictMode, modViolations, lastIndex, envViolations,
                  envInstalled, tm, call, result, unit, now, cpu, memMoves, gate >>

HistoryStopMonitoring ==
  /\ ~crashed
  /\ LET R == stopMonitoring(mm, timers)
     IN  /\ mm' = R.mm
         /\ timers' = R.timers
  /\ UNCHANGED << initialized, strictMode, modViolations, lastIndex, envViolations,
                  envInstalled, tm, call, result, unit, now, mem, cpu, memMoves, crashed,
                  gate >>

HistoryTick ==
  /\ ~crashed
  /\ DueTimers = {}
  /\ now < HistoryStart + MaxHistorySamples * MemCheckInterval
  /\ now' = now + MemCheckInterval
  /\ UNCHANGED << initialized, strictMode, modViolations, lastIndex, envViolations,
                  envInstalled, tm, mm, timers, call, result, unit, mem, cpu, memMoves,
                  crashed, gate >>

HistoryNext ==
  \/ \E m \in HistoryLevels : HistorySample(m)
  \/ \E m \in HistoryLevels : HistoryStartMonitoring(m)
  \/ HistoryStopMonitoring
  \/ HistoryTick

HistorySpec == HistoryInit /\ [][HistoryNext]_vars

\* ================================================ overlapping executions
\* Two executions with and without a per-request timeout, over a span long
\* enough for a sampler to fire twice; memory and CPU readings stay put.
MaxSamplerTicks == 4

SamplerRequests == { r \in Requests : r.code = CodeBenign }

SamplerTick ==
  /\ ~crashed
  /\ DueTimers = {}
  /\ now < MaxSamplerTicks * MemCheckInterval
  /\ now' = now + MemCheckInterval
  /\ UNCHANGED << initialized, strictMode, modViolations, lastIndex, envViolations,
                  envInstalled, tm, mm, timers, call, result, unit, mem, cpu, memMoves,
                  crashed, gate >>

SamplerNext ==
  \/ Initialize
  \/ \E c \in Calls, req \in SamplerRequests : ExecuteSecurely(c, req)
  \/ \E c \in Calls : UnitCompletes(c)
  \/ DeadlineFires
  \/ SamplerFires
  \/ UnitTimeoutFires
  \/ RaceTimeoutFires
  \/ MemoryCheckFires
  \/ SamplerTick

SamplerSpec == Init /\ [][SamplerNext]_vars

\* ================================================================== claims
Entered == { c \in Calls : call[c].pc # "idle" }
Returned == { c \in Calls : call[c].pc = "returned" }
Threw == { c \in Calls : call[c].pc = "threw" }

\* The text holds a require of fs, child_process, net, http or os.
ContainsDenylisted(code) ==
  \E i \in DOMAIN code : \E j \in 1 .. 5 : PieceMatches(code[i], DANGEROUS_PATTERNS[j])

\* The invocation was refused by the static scan, before anything was started.
Rejected(c) ==
  /\ call[c].pc = "returned"
  /\ result[c].error = "Code failed security analysis - contains dangerous patterns"

\* Some timer armed for invocation c is still in the event loop.
HasTimers(c) == \E i \in DOMAIN timers : timers[i].c = c

\* Invocations c and d were in flight at the same time.
Overlap(c, d) ==
  /\ c # d
  /\ call[c].pc # "idle"
  /\ call[d].pc # "idle"
  /\ IF d < c THEN d \notin call[c].before ELSE c \notin call[d].before

\* C1: executeSecurely never throws or rejects: every invocation, in every
\* state of the coordinator, ends in a structured result.
C1_NeverThrows == \A c \in Calls : call[c].pc # "threw"

\* C2: a request whose text holds a denylisted require, submitted to the
\* initialized coordinator in strict mode, is refused with success=false, a
\* CRITICAL violation and a score of at most 50, and neither a unit nor a
\* supervisor is started for it.
C2_DenylistedRefused ==
  \A c \in Entered :
    ( /\ ContainsDenylisted(call[c].code)
      /\ strictMode
      /\ result[c].error # "Security manager not initialized" )
    => /\ Rejected(c)
       /\ result[c].success = FALSE
       /\ \E i \in DOMAIN result[c].report.violations :
             result[c].report.violations[i].severity = "CRITICAL"
       /\ result[c].report.securityScore <= 50
       /\ unit[c] = "none"
       /\ ~HasTimers(c)

\* C3: the report of a request refused in strict mode lists exactly the
\* findings of that request's scan, each once, and is scored on them alone.
C3_RejectionReportIsScanOnly ==
  \A c \in Calls :
    Rejected(c) =>
      LET own == call[c].codeViolations
          h == CountSeverity(own, "HIGH")
          m == CountSeverity(own, "MEDIUM")
          k == CountSeverity(own, "CRITICAL")
      IN  /\ result[c].report.violations = own
          /\ result[c].report.securityScore = SecurityScore(k, h, m)
          /\ result[c].report.riskLevel = RiskLevel(k, h, m)

\* C4: the report of an execution holds no violation raised on behalf of an
\* execution with another id that was in flight at the same time.
C4_ConcurrentIsolation ==
  \A c \in Returned :
    \A i \in DOMAIN result[c].report.violations :
      LET d == result[c].report.violations[i].owner
      IN  ~(d \in Calls /\ Overlap(c, d) /\ call[d].id # call[c].id)

\* C5: the report of an execution made after an earlier invocation returned
\* holds none of that invocation's violations, and none recorded while the
\* coordinator was being initialized.
C5_NothingOutlivesResponse ==
  \A c \in Returned :
    \A i \in DOMAIN result[c].report.violations :
      LET d == result[c].report.violations[i].owner
      IN  d # 0 /\ d \notin call[c].before

Deadline(c) == call[c].startTime + call[c].timeout

SupervisorBreach ==
  {"EXECUTION_TIMEOUT", "MAX_EXECUTION_TIME_EXCEEDED", "CPU_TIME_EXCEEDED"}

C7_TimeoutViolationReported ==
  \A c \in Returned :
    (\E k \in {1, 2} : tm.metrics[<< c, k >>].terminatedBy \in SupervisorBreach)
    => /\ \E i \in DOMAIN result[c].report.violations :
             /\ result[c].report.violations[i].severity = "CRITICAL"
             /\ result[c].report.violations[i].type \in SupervisorBreach \cup {"TIMEOUT"}
       /\ result[c].report.riskLevel = "CRITICAL"
       /\ result[c].report.safe = FALSE

\* C8: every violation the Memory Supervisor recorded while an execution was
\* in flight is listed in that execution's report.
C8_MemoryViolationsReported ==
  \A c \in Returned :
    \A i \in DOMAIN mm.violations :
      c \in mm.violations[i].during =>
        \E j \in DOMAIN result[c].report.violations :
          result[c].report.violations[j].type = mm.violations[i].type

\* C9: an execution during which a sample showed heapUsed above maxHeapSize
\* is aborted: executeSecurely has returned success=false for it, with
\* memoryUsage.safe=false in the report.
C9_HeapBreachAborts ==
  \A c \in Entered :
    (\E i \in DOMAIN mm.violations :
        /\ mm.violations[i].type = "HEAP_LIMIT_EXCEEDED"
        /\ c \in mm.violations[i].during)
    => /\ call[c].pc = "returned"
       /\ result[c].success = FALSE
       /\ result[c].report.memoryUsage.safe = FALSE

\* C10: an execution that returned after a sample showed heapUsed above the
\* request's own memoryLimit was aborted with a memory-exceeded violation.
C10_RequestLimitEnforced ==
  \A c \in Returned :
    (\E i \in DOMAIN mm.memoryHistory :
        /\ c \in mm.memoryHistory[i].during
        /\ mm.memoryHistory[i].heapUsed > call[c].memoryLimit)
    => /\ result[c].success = FALSE
       /\ \E j \in DOMAIN result[c].report.violations :
             result[c].report.violations[j].type = "HEAP_LIMIT_EXCEEDED"

Reported == { c \in Calls : result[c].kind = "returned" }

ListedCount(c, sev) ==
  Cardinality({ i \in DOMAIN result[c].report.violations :
                  result[c].report.violations[i].severity = sev })

\* C11: the securityScore of every report is max(0, 100 - 50c - 20h - 10m)
\* for the numbers c, h, m of CRITICAL, HIGH and MEDIUM violations it lists;
\* LOW violations do not count and the score lies in 0..100.
C11_ScoreFormula ==
  \A x \in Reported :
    LET raw == 100 - 50 * ListedCount(x, "CRITICAL") - 20 * ListedCount(x, "HIGH")
                   - 10 * ListedCount(x, "MEDIUM")
    IN  /\ result[x].report.securityScore = (IF raw < 0 THEN 0 ELSE raw)
        /\ result[x].report.securityScore \in 0 .. 100

C11_Witness ==
  \E x \in Reported :
    /\ ListedCount(x, "LOW") > 0
    /\ ListedCount(x, "CRITICAL") = 3
    /\ result[x].report.securityScore = 0

\* C12: riskLevel of every report is CRITICAL if c > 0, else HIGH if h > 2,
\* else MEDIUM if h > 0 or m > 3, else LOW, and safe holds exactly when
\* c = 0 and h = 0, for the counts c, h, m of the violations it lists.
C12_RiskLevelFormula ==
  \A x \in Reported :
    LET c == ListedCount(x, "CRITICAL")
        h == ListedCount(x, "HIGH")
        m == ListedCount(x, "MEDIUM")
    IN  /\ result[x].report.riskLevel =
             (IF c > 0 THEN "CRITICAL"
              ELSE IF h > 2 THEN "HIGH"
              ELSE IF h > 0 \/ m > 3 THEN "MEDIUM"
              ELSE "LOW")
        /\ result[x].report.safe = (c = 0 /\ h = 0)

C12_Witness ==
  \E x \in Reported :
    /\ ListedCount(x, "CRITICAL") = 0
    /\ ListedCount(x, "HIGH") = 3
    /\ result[x].report.riskLevel = "HIGH"
    /\ result[x].report.safe = FALSE

\* The unit of invocation c ran its script to the 'completed' message.
UnitCompleted(c) == call[c].pc = "returned" /\ result[c].value # NoValue

Undisturbed(c) ==
  /\ \A k \in {1, 2} : tm.metrics[<< c, k >>].terminatedBy = ""
  /\ \A i \in DOMAIN mm.violations : c \notin mm.violations[i].during

\* C13: after initialization and any earlier executions, a request whose
\* code holds no dangerous pattern, whose unit completed and for which no
\* supervisor acted returns success=true with the output of its code,
\* riskLevel LOW and score 100.
C13_BenignRunIsClean ==
  \A c \in Calls :
    (UnitCompleted(c) /\ ~ContainsDenylisted(call[c].code) /\ Undisturbed(c))
    => /\ result[c].success = TRUE
       /\ result[c].value.output = UserOutput(call[c].code)
       /\ result[c].report.riskLevel = "LOW"
       /\ result[c].report.securityScore = 100

AfterShutdown == ~initialized /\ envInstalled

SupervisorTimers(id) ==
  { i \in DOMAIN timers : timers[i].kind \in {"deadline", "sampler"} /\ timers[i].id = id }

\* C16: after shutdown(), whatever was in flight, no execution is in the
\* active set, no deadline or sampling timer of any execution is armed, the
\* Memory Supervisor is not sampling and initialized is false.
C16_ShutdownReleasesAll ==
  AfterShutdown =>
    /\ \A id \in ExecIds : tm.active[id] = NoExec
    /\ \A id \in ExecIds : SupervisorTimers(id) = {}
    /\ ~mm.isMonitoring
    /\ \A i \in DOMAIN timers : timers[i].kind # "mem"

\* C17: once executeSecurely has returned, by whatever path, no deadline,
\* sampling or race timer created for that invocation is armed and the
\* active set holds no entry of it.
C17_ReturnLeavesNothingArmed ==
  \A c \in Returned :
    /\ \A i \in DOMAIN timers :
         timers[i].c = c => timers[i].kind \notin {"deadline", "sampler", "race"}
    /\ \A id \in ExecIds : tm.active[id].c # c

\* C18: at every moment at most one deadline timer and at most one sampler
\* are armed per execution id.
C18_OneTimerSetPerId ==
  \A id \in ExecIds :
    /\ Cardinality({ i \in SupervisorTimers(id) : timers[i].kind = "deadline" }) <= 1
    /\ Cardinality({ i \in SupervisorTimers(id) : timers[i].kind = "sampler" }) <= 1

SupervisorTerminated(c) == \E k \in {1, 2} : tm.metrics[<< c, k >>].terminatedBy # ""

\* C20: a unit ended before its natural completion was ended by the Timeout
\* Supervisor's terminateExecution, and an execution the Timeout Supervisor
\* has terminated has no unit still running.
C20_SupervisorAloneTerminates ==
  \A c \in Calls :
    /\ unit[c] = "terminated" => SupervisorTerminated(c)
    /\ SupervisorTerminated(c) => unit[c] # "running"

\* C15: for a request whose code requires a blocked module or loops forever,
\* the result the execution service returns is never both success=true and
\* riskLevel low.
C15_ServiceFlagsBlockedCode ==
  \A c \in Calls :
    (/\ result[c].kind = "returned"
     /\ \/ ContainsDenylisted(call[c].code)
        \/ \E i \in DOMAIN call[c].code : call[c].code[i] = "loop")
    => ~(result[c].success = TRUE /\ result[c].report.riskLevel = "low")

CriticalDuring(c) ==
  \/ \E i \in DOMAIN WorkerGateLog(c) : WorkerGateLog(c)[i].severity = "CRITICAL"
  \/ \E i \in DOMAIN mm.violations :
       mm.violations[i].severity = "CRITICAL" /\ c \in mm.violations[i].during

\* C19: an execution during which a gate or a supervisor recorded a CRITICAL
\* violation is terminated: its unit does not go on to complete its script
\* and hand a result to executeSecurely.
C19_CriticalEndsExecution ==
  \A c \in Calls : UnitCompleted(c) => ~CriticalDuring(c)

\* Invocation c has started its unit and has not yet returned.
InFlight(c) == call[c].pc = "awaiting"

\* C21: while an invocation is in flight the memory monitor keeps sampling,
\* whatever other invocations start or finish meanwhile, and the peak its
\* report shows is the heap reading of a sample taken during its own run
\* (the coordinator not having been shut down meanwhile).
C21_MemoryPerExecution ==
  /\ \A c \in Calls :
       (InFlight(c) /\ ~crashed /\ initialized) =>
         /\ mm.isMonitoring
         /\ \E i \in DOMAIN timers : timers[i].kind = "mem"
  /\ \A c \in Returned :
       (unit[c] # "none" /\ initialized) =>
         \E i \in DOMAIN mm.memoryHistory :
           /\ c \in mm.memoryHistory[i].during
           /\ mm.memoryHistory[i].heapUsed = result[c].report.memoryUsage.peak

\* The delay after which timer x, armed for an invocation, is due.
Delay(x) == x.due - call[x.c].startTime

\* C22: whatever timeout a request carries, no deadline armed for its
\* execution (the supervisor's, the race's or the worker's) lies further
\* ahead than the process-wide maxExecutionTime, and the supervisor's
\* configured limit never exceeds that value.
C22_OverrideWithinCeiling ==
  /\ tm.maxExecutionTime <= DefaultMaxExecutionTime
  /\ \A i \in DOMAIN timers :
       timers[i].kind \in {"deadline", "race", "unit"} =>
         Delay(timers[i]) <= DefaultMaxExecutionTime

\* Invocation c got as far as the static scan of its code.
Scanned(c) ==
  /\ call[c].pc # "idle"
  /\ result[c].error # "Security manager not initialized"

\* The patterns the scan of invocation c reported.
FindingsOf(c) ==
  { call[c].codeViolations[i].detail : i \in DOMAIN call[c].codeViolations }

\* C23: two scans of the same text, whatever was scanned before or between
\* them, report the same findings and reach the same verdict.
C23_ScanIsFunctionOfText ==
  \A c, d \in Calls :
    (Scanned(c) /\ Scanned(d) /\ call[c].code = call[d].code) =>
      /\ FindingsOf(c) = FindingsOf(d)
      /\ Rejected(c) = Rejected(d)

\* C24: a step in which an invocation's code is scanned leaves the
\* capability gate's violation log and the analyzer's own state as they were.
C24_ScanChangesNoState ==
  [][ \A c \in Calls :
        (call[c].pc = "idle" /\ Scanned(c)') =>
          /\ modViolations' = modViolations
          /\ lastIndex' = lastIndex ]_vars

\* Slot c is given a status in this step.
StatusRead(c) ==
  /\ call[c].pc \in {"idle", "status"}
  /\ call[c].pc' = "status"
  /\ << call[c], result[c] >>' # << call[c], result[c] >>

\* C25: reading the status leaves the coordinator, the gates, the supervisors
\* and the event loop as they were, and a read that follows another with no
\* invocation started or finished in between (and no shutdown) returns the
\* same number of active executions.
C25_StatusIsPureRead ==
  [][ \A c \in Calls :
        StatusRead(c) =>
          /\ UNCHANGED << initialized, strictMode, modViolations, lastIndex, envViolations,
                          envInstalled, tm, mm, timers, unit, now, mem, cpu, memMoves,
                          crashed, gate >>
          /\ \A d \in Calls \ {c} : call[d]' = call[d] /\ result[d]' = result[d]
          /\ (call[c].pc = "status" /\ result[c].seen = Seen) =>
               result[c]'.status.timeoutManagement.activeExecutions
                 = result[c].status.timeoutManagement.activeExecutions ]_vars

C25_Witness ==
  \E c \in Calls :
    /\ call[c].pc = "status"
    /\ result[c].status.timeoutManagement.activeExecutions = 1
    /\ result[c].seen = Seen
    /\ \E d \in Calls : call[d].pc = "awaiting"

\* This step is a call of kind op through a gate.
GateCall(op) == gate.ops' = gate.ops + 1 /\ gate.last'.op = op

\* The log new is the log old with one violation of severity sev at its end.
AppendsOne(old, new, sev) ==
  /\ Len(new) = Len(old) + 1
  /\ SubSeq(new, 1, Len(old)) = old
  /\ new[Len(new)].severity = sev

\* C26: with the capability gate installed, a require of a block-listed name
\* raises and appends one CRITICAL violation, a require of a name on neither
\* list raises and appends one HIGH violation, a require of an allow-listed
\* name appends none, and nothing that is not allow-listed is returned.
C26_RequireThroughGate ==
  [][ GateCall("require") =>
        LET id == gate.last'.name
        IN  /\ id \in BLOCKED_MODULES =>
                 gate.last'.raised /\ AppendsOne(modViolations, modViolations', "CRITICAL")
            /\ id \notin BLOCKED_MODULES \cup ALLOWED_MODULES =>
                 gate.last'.raised /\ AppendsOne(modViolations, modViolations', "HIGH")
            /\ id \in ALLOWED_MODULES => modViolations' = modViolations
            /\ id \notin ALLOWED_MODULES => gate.last'.raised /\ gate.last'.value = {} ]_vars

C26_Witness ==
  /\ gate.last.op = "require"
  /\ gate.last.name \notin BLOCKED_MODULES \cup ALLOWED_MODULES
  /\ gate.last.raised
  /\ modViolations[Len(modViolations)].severity = "HIGH"
  /\ modViolations[Len(modViolations)].detail = gate.last.name

\* C27: however often initialize() is called, in sequence, overlapping or
\* after shutdown(), global.require is replaced once, and a require passes
\* through one intercepting function.
C27_GatesInstalledOnce ==
  /\ gate.layers <= 1
  /\ gate.last.op = "require" => gate.last.layers <= 1

\* C28: reading a variable through the environment gate: an allow-listed
\* name gives its value and records nothing; a sensitive name raises,
\* records one CRITICAL violation and gives no value; any other name gives
\* nothing and records one HIGH violation.  Names are matched as the gate
\* matches them, without regard to case.
C28_EnvGetThroughGate ==
  [][ GateCall("get") =>
        LET prop == gate.last'.name
        IN  IF toUpperCase(prop) \in ALLOWED_VARS
            THEN /\ ~gate.last'.raised
                 /\ gate.last'.value = originalProcessEnv[prop]
                 /\ envViolations' = envViolations
            ELSE IF toUpperCase(prop) \in SENSITIVE_VARS
            THEN /\ gate.last'.raised
                 /\ gate.last'.value = {}
                 /\ AppendsOne(envViolations, envViolations', "CRITICAL")
            ELSE /\ ~gate.last'.raised
                 /\ gate.last'.value = {}
                 /\ AppendsOne(envViolations, envViolations', "HIGH") ]_vars

C28_Witness ==
  /\ gate.last.op = "get"
  /\ gate.last.name = "FOO"
  /\ originalProcessEnv["FOO"] # {}
  /\ gate.last.value = {}
  /\ envViolations[Len(envViolations)].severity = "HIGH"
  /\ envViolations[Len(envViolations)].detail = "FOO"

\* What a get of prop returns, violations aside.
View(prop, log) == [raised |-> envGet(prop, log).raised, value |-> envGet(prop, log).value]

C30_EnumerationAllowListOnly ==
  [][ GateCall("keys") =>
        /\ gate.last'.value \subseteq ALLOWED_VARS
        /\ AppendsOne(envViolations, envViolations', "HIGH")
        /\ envViolations'[Len(envViolations')].type = "ENV_ENUMERATION" ]_vars

C30_Witness ==
  /\ gate.last.op = "keys"
  /\ gate.last.value # {}
  /\ \E prop \in EnvNames \ ALLOWED_VARS : originalProcessEnv[prop] # {}
  /\ envViolations[Len(envViolations)].type = "ENV_ENUMERATION"

\* C31: every entry of the map createSafeEnvironment returns has an
\* allow-listed name and the value that name has in the source environment.
C31_SafeSubsetOnlyAllowListed ==
  gate.last.op = "subset" =>
    \A e \in gate.last.value :
      /\ e[1] \in ALLOWED_VARS
      /\ e[2] \in originalProcessEnv[e[1]]

\* In this step a deadline timer or a sampler armed for invocation c fires.
SupervisorTimerFires(c) ==
  /\ ~crashed
  /\ DueTimers # {}
  /\ timers[NextTimer].kind \in {"deadline", "sampler"}
  /\ timers[NextTimer].c = c
  /\ timers' # timers
  /\ << call, result, mm, unit, initialized, modViolations >>'
       = << call, result, mm, unit, initialized, modViolations >>

\* C32: once stopExecution has been called for an execution (executeSecurely
\* calls it before it returns), no deadline timer and no sampler of that
\* execution fires any more.
C32_StopCancelsTimers ==
  [][ \A c \in Calls : call[c].pc = "returned" => ~SupervisorTimerFires(c) ]_vars

\* C33: terminateAllExecutions(reason), as shutdown() calls it, leaves no
\* execution active; each execution that was active has timedOut = TRUE with
\* the given reason and neither of its entry's two timers armed; one
\* 'execution-terminated' event is emitted per execution, and the count
\* returned is the number that were active.
C33_TerminateAllTerminatesAll ==
  [][ Shutdown =>
        LET ids == { id \in ExecIds : tm.active[id].c # 0 }
            R   == terminateAllExecutions([tm |-> tm, timers |-> timers],
                                          "SYSTEM_SHUTDOWN", now)
        IN  /\ \A id \in ExecIds : tm'.active[id] = NoExec
            /\ \A id \in ids :
                 LET e == tm.active[id]
                 IN  /\ tm'.metrics[<< e.c, e.k >>].timedOut
                     /\ tm'.metrics[<< e.c, e.k >>].reason = "SYSTEM_SHUTDOWN"
                     /\ \A i \in 1..Len(timers') :
                          ~ ( /\ timers'[i].kind \in {"deadline", "sampler"}
                              /\ timers'[i].c = e.c
                              /\ timers'[i].k = e.k )
                     /\ Cardinality({ i \in 1..Len(R.emitted) :
                                        R.emitted[i].executionId = id }) = 1
            /\ Len(R.emitted) = Cardinality(ids)
            /\ R.terminatedCount = Cardinality(ids) ]_vars

\* Two executions were active together when shutdown() terminated them.
C33_Witness ==
  \E c1 \in Calls, c2 \in Calls :
    /\ c1 # c2
    /\ \E k1 \in 1..2 : tm.metrics[<< c1, k1 >>].terminatedBy = "SYSTEM_SHUTDOWN"
    /\ \E k2 \in 1..2 : tm.metrics[<< c2, k2 >>].terminatedBy = "SYSTEM_SHUTDOWN"

HistorySlides ==
  LET h  == mm.memoryHistory
      h2 == mm'.memoryHistory
  IN  /\ Len(h2) = IF Len(h) < HistoryLimit THEN Len(h) + 1 ELSE HistoryLimit
      /\ h2[Len(h2)].timestamp = now
      /\ SubSeq(h2, 1, Len(h2) - 1) = SubSeq(h, Len(h) - Len(h2) + 2, Len(h))

HistoryStartsAfresh ==
  /\ ~mm.isMonitoring
  /\ mm'.isMonitoring
  /\ Len(mm'.memoryHistory) = 1
  /\ mm'.memoryHistory[1].timestamp = now

\* C34: the monitor's history never holds more than 100 samples; a sample
\* taken is put last and, when the history was full, only the oldest one is
\* dropped; starting a monitoring session leaves nothing of the earlier
\* history (only the session's first sample).
C34_HistoryBounded ==
  /\ [](Len(mm.memoryHistory) <= HistoryLimit)
  /\ [][ /\ mm'.memoryHistory # mm.memoryHistory => (HistorySlides \/ HistoryStartsAfresh)
         /\ (~mm.isMonitoring /\ mm'.isMonitoring) => HistoryStartsAfresh ]_vars

\* A full history has slid: its oldest sample is gone.
C34_Witness ==
  /\ Len(mm.memoryHistory) = HistoryLimit
  /\ mm.memoryHistory[1].timestamp >= 2 * MemCheckInterval
  /\ mm.memoryHistory[HistoryLimit].timestamp > HistoryStart

SampleTaken == mm'.memoryHistory # mm.memoryHistory

\* The violations the step added to the monitor's list.
SampleViolations ==
  IF mm.isMonitoring
  THEN SubSeq(mm'.violations, Len(mm.violations) + 1, Len(mm'.violations))
  ELSE mm'.violations

SampleRaised(type, severity) ==
  Cardinality({ i \in DOMAIN SampleViolations :
                  /\ SampleViolations[i].type = type
                  /\ SampleViolations[i].severity = severity })

GrowthRuleApplies ==
  LET h == mm'.memoryHistory
      s == h[Len(h)]
  IN  /\ Len(h) >= GrowthWindowSamples
      /\ s.timestamp - h[Len(h) - GrowthWindowSamples + 1].timestamp < GrowthWindowMs
      /\ s.heapUsed - h[Len(h) - GrowthWindowSamples + 1].heapUsed > GrowthLimit

\* C35: a sample raises one violation for each ceiling it exceeds (CRITICAL
\* for heapUsed, CRITICAL for rss, HIGH for array buffers), and the growth
\* rule is applied to it whatever the ceilings gave.
C35_CeilingsIndependent ==
  [][ SampleTaken =>
        LET h == mm'.memoryHistory
            s == h[Len(h)]
        IN  /\ SampleRaised("HEAP_LIMIT_EXCEEDED", "CRITICAL")
                 = IF s.heapUsed > MaxHeapSize THEN 1 ELSE 0
            /\ SampleRaised("RSS_LIMIT_EXCEEDED", "CRITICAL")
                 = IF s.rss > MaxRssSize THEN 1 ELSE 0
            /\ SampleRaised("ARRAY_BUFFER_LIMIT_EXCEEDED", "HIGH")
                 = IF s.arrayBuffers > MaxArrayBufferSize THEN 1 ELSE 0
            /\ SampleRaised("MEMORY_GROWTH_ANOMALY", "HIGH")
                 = IF GrowthRuleApplies THEN 1 ELSE 0 ]_vars

C37_TimeoutRestored ==
  (\A c \in Calls : call[c].pc # "awaiting")
    => tm.maxExecutionTime = DefaultMaxExecutionTime

\* C38: a sampler terminates an execution for its execution time only when
\* the execution has run longer than its own timeout, and does terminate it
\* when it has, whatever other executions have started or finished.
C38_SamplerOwnDeadline ==
  [][ \A id \in ExecIds :
        LET e == tm.active[id]
        IN  e.c # 0 =>
              /\ ( /\ tm.metrics[<< e.c, e.k >>].terminatedBy # "MAX_EXECUTION_TIME_EXCEEDED"
                   /\ tm'.metrics[<< e.c, e.k >>].terminatedBy = "MAX_EXECUTION_TIME_EXCEEDED" )
                   => now - e.startTime > call[e.c].timeout
              /\ ( /\ SamplerFires
                   /\ timers[NextTimer].id = id
                   /\ now - e.startTime > call[e.c].timeout )
                   => tm'.active[id] = NoExec ]_vars

\* C39: no call's executeWithTimeout result has success = TRUE together with
\* metrics.timedOut = TRUE.
C39_NoTimedOutSuccess ==
  \A c \in Calls :
    (result[c].kind = "returned" /\ result[c].success) => ~result[c].metrics.timedOut

\* C40: an execution is terminated for CPU time only when the CPU time the
\* process has used since that execution started exceeds maxCpuTime.
C40_CpuSinceStart ==
  [][ \A id \in ExecIds :
        LET e == tm.active[id]
        IN  ( /\ e.c # 0
              /\ tm.metrics[<< e.c, e.k >>].terminatedBy # "CPU_TIME_EXCEEDED"
              /\ tm'.metrics[<< e.c, e.k >>].terminatedBy = "CPU_TIME_EXCEEDED" )
              => cpu - call[e.c].cpuAtStart > MaxCpuTime ]_vars

====
